---- MODULE Spec2Model ----
(***************************************************************************)
(* A model of symtool (symtool/src/main.rs): the command-line front end    *)
(* that validates the rename / visibility configuration, builds the symbol *)
(* transform closure and hands it to symtool_backend::transform_object.    *)
(*                                                                         *)
(* Text is a sequence of one-character strings, Option<T> is a set with at *)
(* most one element, Result<T, E> is a record with an ok field.            *)
(***************************************************************************)
EXTENDS Integers, Sequences, FiniteSets, TLC

VARIABLES
    args,            \* the parsed command line (clap's ArgMatches)
    invocation,      \* "first" or "second": which process invocation this is
    pc,              \* position inside main/run
    hidden_regex,    \* Option<RegexSet>, main.rs:120
    default_regex,   \* Option<RegexSet>, main.rs:124
    rename_map,      \* HashMap<String, String>, main.rs:128
    input_opened,    \* File::open(INPUT) has been called and succeeded
    output_created,  \* File::create(OUTPUT) has been called and succeeded
    fed,             \* content found under the INPUT path (None: not yet looked at)
    input,           \* Option: the decoded content read from INPUT
    calls,           \* the patch primitive calls the closure made, with their results
    returned,        \* Option<Result<Vec<Patch>>>: what the transform closure returned
    output,          \* Option: the content written to OUTPUT (None: nothing written)
    stdout,          \* lines printed by println!
    stderr,          \* lines printed by main's error handler
    result           \* Option<Result<(), Error>>: what run returned

vars == <<args, invocation, pc, hidden_regex, default_regex, rename_map,
          input_opened, output_created, fed, input, calls, returned,
          output, stdout, stderr, result>>

-----------------------------------------------------------------------------
(* Option and Result *)

None == {}
Some(x) == {x}
IsSome(o) == o # {}
Unwrap(o) == CHOOSE x \in o : TRUE

Ok(v) == [ok |-> TRUE, val |-> v]
Err(e) == [ok |-> FALSE, err |-> e]

-----------------------------------------------------------------------------
(* Bounds of the model *)

\* longest symbol table an input file holds
MaxSyms == 2

-----------------------------------------------------------------------------
(* Text *)

foo == <<"f", "o", "o">>
bar == <<"b", "a", "r">>
name_a == <<"a">>
name_ab == <<"a", "b">>
\* the literal of main.rs:149 and main.rs:185
UnnamedSymbol == <<"u", "n", "n", "a", "m", "e", "d", " ", "s", "y", "m", "b", "o", "l">>

-----------------------------------------------------------------------------
(* regex::RegexSet, for the pattern syntax the model's inputs use: literal *)
(* characters, ".", postfix "*", a leading "^", a trailing "$", and "("    *)
(* which opens a group and is a syntax error when never closed.            *)

Count(seq, c) == Cardinality({i \in 1..Len(seq) : seq[i] = c})

\* regex::Regex::new fails on an unclosed group or a repetition of nothing
SyntaxOk(re) ==
    /\ Count(re, "(") = Count(re, ")")
    /\ ~(re # <<>> /\ re[1] = "*")

RECURSIVE MatchHere(_, _)
MatchStar(c, re, text) ==
    \E k \in 0..Len(text) :
        /\ \A j \in 1..k : c = "." \/ text[j] = c
        /\ MatchHere(re, SubSeq(text, k + 1, Len(text)))

MatchHere(re, text) ==
    IF re = <<>> THEN TRUE
    ELSE IF Len(re) >= 2 /\ re[2] = "*"
        THEN MatchStar(re[1], SubSeq(re, 3, Len(re)), text)
    ELSE IF re = <<"$">> THEN text = <<>>
    ELSE /\ text # <<>>
         /\ (re[1] = "." \/ re[1] = text[1])
         /\ MatchHere(Tail(re), Tail(text))

\* an unanchored search, as Regex::is_match
RegexIsMatch(re, text) ==
    IF re # <<>> /\ re[1] = "^"
    THEN MatchHere(Tail(re), text)
    ELSE \E i \in 0..Len(text) : MatchHere(re, SubSeq(text, i + 1, Len(text)))

\* RegexSet::new(patterns): the first pattern that does not compile is the error
RegexSetNew(patterns) ==
    IF \E i \in 1..Len(patterns) : ~SyntaxOk(patterns[i])
    THEN LET i == CHOOSE k \in 1..Len(patterns) :
                      /\ ~SyntaxOk(patterns[k])
                      /\ \A j \in 1..(k - 1) : SyntaxOk(patterns[j])
         IN  Err([kind |-> "Regex", pattern |-> patterns[i]])
    ELSE Ok(patterns)

\* RegexSet::is_match(name): some pattern of the set matches
is_match(set, text) == \E i \in 1..Len(set) : RegexIsMatch(set[i], text)

-----------------------------------------------------------------------------
(* u8 arithmetic *)

RECURSIVE BitAnd(_, _)
BitAnd(x, y) ==
    IF x = 0 \/ y = 0 THEN 0
    ELSE (x % 2) * (y % 2) + 2 * BitAnd(x \div 2, y \div 2)

RECURSIVE BitOr(_, _)
BitOr(x, y) ==
    IF x = 0 THEN y
    ELSE IF y = 0 THEN x
    ELSE (IF x % 2 = 1 \/ y % 2 = 1 THEN 1 ELSE 0) + 2 * BitOr(x \div 2, y \div 2)

\* !x on a u8
BitNot(x) == 255 - x

\* goblin::elf::sym
STV_DEFAULT == 0
STV_HIDDEN == 2
\* goblin::mach::symbols
N_PEXT == 16
N_STAB == 224

-----------------------------------------------------------------------------
(* HashMap<String, String> as a function from its keys *)

EmptyMap == [k \in {} |-> <<>>]
MapInsert(m, k, v) == [x \in DOMAIN m \cup {k} |-> IF x = k THEN v ELSE m[x]]
MapGet(m, k) == IF k \in DOMAIN m THEN Some(m[k]) ELSE None

-----------------------------------------------------------------------------
(* Symbol records.  A goblin Sym is modelled by its st_info and st_other   *)
(* fields, an Nlist by its n_type and n_sect fields.  println! is modelled *)
(* by the lines an operator adds to stdout (its out field).                *)

Line(vis, name) == [vis |-> vis, name |-> name]

\* a slip: the visibility bit is flipped instead of set
make_sym_hidden_toggle(s, name, verbose) ==
    [val |-> [s EXCEPT !.st_other =
                  IF (s.st_other \div 2) % 2 = 1 THEN s.st_other - STV_HIDDEN
                  ELSE s.st_other + STV_HIDDEN],
     out |-> IF verbose THEN <<Line("hidden", name)>> ELSE <<>>]

make_sym_hidden(s, name, verbose) ==
    [val |-> [s EXCEPT !.st_other = BitOr(BitAnd(s.st_other, 252), STV_HIDDEN)],
     out |-> IF verbose THEN <<Line("hidden", name)>> ELSE <<>>]

\* a slip: the old visibility bits are not masked out
make_sym_default_unmasked(s, name, verbose) ==
    [val |-> [s EXCEPT !.st_other = BitOr(s.st_other, STV_DEFAULT)],
     out |-> IF verbose THEN <<Line("default", name)>> ELSE <<>>]

make_sym_default(s, name, verbose) ==
    [val |-> [s EXCEPT !.st_other = BitOr(BitAnd(s.st_other, 252), STV_DEFAULT)],
     out |-> IF verbose THEN <<Line("default", name)>> ELSE <<>>]

\* a slip: the N_STAB test is left out
make_nlist_hidden_any(s, name, verbose) ==
    [val |-> Some([s EXCEPT !.n_type = BitOr(s.n_type, N_PEXT)]),
     out |-> IF verbose THEN <<Line("hidden", name)>> ELSE <<>>]

make_nlist_hidden(s, name, verbose) ==
    IF BitAnd(s.n_type, N_STAB) # 0
    THEN [val |-> None, out |-> <<>>]
    ELSE [val |-> Some([s EXCEPT !.n_type = BitOr(s.n_type, N_PEXT)]),
          out |-> IF verbose THEN <<Line("hidden", name)>> ELSE <<>>]

make_nlist_default(s, name, verbose) ==
    IF BitAnd(s.n_type, N_STAB) # 0
    THEN [val |-> None, out |-> <<>>]
    ELSE [val |-> Some([s EXCEPT !.n_type = BitAnd(s.n_type, BitNot(N_PEXT))]),
          out |-> IF verbose THEN <<Line("default", name)>> ELSE <<>>]

-----------------------------------------------------------------------------
(* The per-symbol decisions of the transform closure.  cfg is what the     *)
(* closure captured: verbose, hidden_regex, default_regex, rename_map.     *)

NoDecision == [new_name |-> None, new_rec |-> None, out |-> <<>>]

Matches(regex, text) == IsSome(regex) /\ is_match(Unwrap(regex), text)

\* a slip: the force-hidden set is tested first
ElfNewSym_hidden_first(n, sym, debug_name, cfg) ==
    IF Matches(cfg.hidden_regex, n)
    THEN LET r == make_sym_hidden(sym, debug_name, cfg.verbose)
         IN  [val |-> Some(r.val), out |-> r.out]
    ELSE IF Matches(cfg.default_regex, n)
    THEN LET r == make_sym_default(sym, debug_name, cfg.verbose)
         IN  [val |-> Some(r.val), out |-> r.out]
    ELSE [val |-> None, out |-> <<>>]

\* main.rs:152-162: new_sym of an ELF symbol named n
ElfNewSym(n, sym, debug_name, cfg) ==
    IF Matches(cfg.default_regex, n)
    THEN LET r == make_sym_default(sym, debug_name, cfg.verbose)
         IN  [val |-> Some(r.val), out |-> r.out]
    ELSE IF Matches(cfg.hidden_regex, n)
    THEN LET r == make_sym_hidden(sym, debug_name, cfg.verbose)
         IN  [val |-> Some(r.val), out |-> r.out]
    ELSE [val |-> None, out |-> <<>>]

\* main.rs:188-198: new_nlist of a Mach-O symbol named n
MachNewNlist(n, nlist, debug_name, cfg) ==
    IF Matches(cfg.default_regex, n)
    THEN make_nlist_default(nlist, debug_name, cfg.verbose)
    ELSE IF Matches(cfg.hidden_regex, n)
    THEN make_nlist_hidden(nlist, debug_name, cfg.verbose)
    ELSE [val |-> None, out |-> <<>>]

\* a slip: the patterns are tested against the name the symbol is renamed to
ElfDecision_match_new_name(name, sym, cfg) ==
    LET debug_name == IF IsSome(name) THEN Unwrap(name) ELSE UnnamedSymbol
    IN  IF IsSome(name)
        THEN LET new_name == MapGet(cfg.rename_map, Unwrap(name))
                 n == IF IsSome(new_name) THEN Unwrap(new_name) ELSE Unwrap(name)
                 v == ElfNewSym(n, sym, debug_name, cfg)
             IN  [new_name |-> new_name, new_rec |-> v.val, out |-> v.out]
        ELSE NoDecision

\* main.rs:149-166: (new_name, new_sym) of one ELF symbol
ElfDecision(name, sym, cfg) ==
    LET debug_name == IF IsSome(name) THEN Unwrap(name) ELSE UnnamedSymbol
    IN  IF IsSome(name)
        THEN LET new_name == MapGet(cfg.rename_map, Unwrap(name))
                 v == ElfNewSym(Unwrap(name), sym, debug_name, cfg)
             IN  [new_name |-> new_name, new_rec |-> v.val, out |-> v.out]
        ELSE NoDecision

\* a slip: the lookups use debug_name, which an unnamed symbol has too
MachDecision_debug_name(name, nlist, cfg) ==
    LET debug_name == IF IsSome(name) THEN Unwrap(name) ELSE UnnamedSymbol
        new_name == MapGet(cfg.rename_map, debug_name)
        v == MachNewNlist(debug_name, nlist, debug_name, cfg)
    IN  [new_name |-> new_name, new_rec |-> v.val, out |-> v.out]

\* main.rs:185-202: (new_name, new_nlist) of one Mach-O symbol
MachDecision(name, nlist, cfg) ==
    LET debug_name == IF IsSome(name) THEN Unwrap(name) ELSE UnnamedSymbol
    IN  IF IsSome(name)
        THEN LET new_name == MapGet(cfg.rename_map, Unwrap(name))
                 v == MachNewNlist(Unwrap(name), nlist, debug_name, cfg)
             IN  [new_name |-> new_name, new_rec |-> v.val, out |-> v.out]
        ELSE NoDecision

Decision(format, name, rec, cfg) ==
    IF format = "Elf" THEN ElfDecision(name, rec, cfg) ELSE MachDecision(name, rec, cfg)

-----------------------------------------------------------------------------
(* The patch primitives of symtool_backend.  A patch names the symbol      *)
(* whose bytes it overwrites (sym), which bytes (kind: the name in the     *)
(* string table or the record in the symbol table) and the replacement.    *)
(* A primitive fails when the replacement does not fit, or when the        *)
(* environment makes it fail: fault names the one primitive call that does.*)

NoFault == [sym |-> 0, kind |-> "none"]
Fault(i, kind) == [sym |-> i, kind |-> kind]

PatchWithBytes(i, name, bytes, fault) ==
    IF Len(bytes) > Len(name) \/ fault = Fault(i, "name")
    THEN Err([kind |-> "SymTool", at |-> Fault(i, "name")])
    ELSE Ok([sym |-> i, kind |-> "name", bytes |-> bytes])

PatchWith(i, new_rec, fault) ==
    IF fault = Fault(i, "record")
    THEN Err([kind |-> "SymTool", at |-> Fault(i, "record")])
    ELSE Ok([sym |-> i, kind |-> "record", rec |-> new_rec])

\* a slip: the record patch is pushed before the name patch
SymbolPatches_record_first(i, name, d, fault) ==
    (IF IsSome(d.new_rec)
     THEN <<PatchWith(i, Unwrap(d.new_rec), fault)>>
     ELSE <<>>)
    \o
    (IF IsSome(name) /\ IsSome(d.new_name)
     THEN <<PatchWithBytes(i, Unwrap(name), Unwrap(d.new_name), fault)>>
     ELSE <<>>)

\* main.rs:167-176 and 203-212: the primitives one symbol calls, in call order
SymbolPatches(i, name, d, fault) ==
    (IF IsSome(name) /\ IsSome(d.new_name)
     THEN <<PatchWithBytes(i, Unwrap(name), Unwrap(d.new_name), fault)>>
     ELSE <<>>)
    \o
    (IF IsSome(d.new_rec)
     THEN <<PatchWith(i, Unwrap(d.new_rec), fault)>>
     ELSE <<>>)

\* a slip: a failed primitive is skipped (.ok() and if let) instead of returned
Propagate_swallow(cs) ==
    LET good == SelectSeq(cs, LAMBDA c : c.ok)
    IN  Ok([k \in 1..Len(good) |-> good[k].val])

\* the ? operator over the calls of one symbol: the first failure ends the
\* closure, and a later call is not made
Propagate(cs) ==
    IF \E k \in 1..Len(cs) : ~cs[k].ok
    THEN LET k == CHOOSE j \in 1..Len(cs) :
                      ~cs[j].ok /\ \A l \in 1..(j - 1) : cs[l].ok
         IN  Err(cs[k].err)
    ELSE Ok([k \in 1..Len(cs) |-> cs[k].val])

\* iter.collect::<Result<Vec<_>>>()?: the whole sequence, or its first error
Collect(entries) ==
    IF \E k \in 1..Len(entries) : ~entries[k].ok
    THEN Err([kind |-> "SymTool", at |-> Fault(CHOOSE k \in 1..Len(entries) :
                 ~entries[k].ok /\ \A l \in 1..(k - 1) : entries[l].ok, "enumerate")])
    ELSE Ok(entries)

\* the primitive calls of one symbol that are made: up to the first failure
Made(cs) ==
    SubSeq(cs, 1,
           IF \E k \in 1..Len(cs) : ~cs[k].ok
           THEN CHOOSE j \in 1..Len(cs) :
                    ~cs[j].ok /\ \A l \in 1..(j - 1) : cs[l].ok
           ELSE Len(cs))

\* the for loop of main.rs:146-177 and 182-213, from symbol i on; acc holds
\* the patches pushed, the lines printed and the primitive calls made so far
RECURSIVE SymbolLoop(_, _, _, _, _, _)
SymbolLoop(format, syms, i, acc, cfg, fault) ==
    IF i > Len(syms) THEN [res |-> Ok(acc.patches), out |-> acc.out, calls |-> acc.calls]
    ELSE LET d == Decision(format, syms[i].name, syms[i].rec, cfg)
             cs == SymbolPatches(i, syms[i].name, d, fault)
             pushed == Propagate(cs)
             made == acc.calls \o Made(cs)
         IN  IF pushed.ok
             THEN SymbolLoop(format, syms, i + 1,
                             [patches |-> acc.patches \o pushed.val,
                              out |-> acc.out \o d.out, calls |-> made],
                             cfg, fault)
             ELSE [res |-> Err(pushed.err), out |-> acc.out \o d.out, calls |-> made]

NoEffect(res) == [res |-> res, out |-> <<>>, calls |-> <<>>]

\* main.rs:140-218: the transform closure
Transform(object, cfg, fault) ==
    IF object.symtab = "error"
    THEN NoEffect(Err([kind |-> "SymTool", at |-> Fault(0, "symtab")]))
    ELSE IF object.symtab = "absent"
    THEN NoEffect(Ok(<<>>))
    ELSE LET syms == Collect(object.entries)
         IN  IF syms.ok
             THEN SymbolLoop(object.format, syms.val, 1,
                             [patches |-> <<>>, out |-> <<>>, calls |-> <<>>],
                             cfg, fault)
             ELSE NoEffect(Err(syms.err))

\* symtool_backend's patch application: every patch overwrites the bytes of
\* its symbol's name or record, everything else is copied
RECURSIVE ApplyPatches(_, _)
ApplyPatches(entries, patches) ==
    IF patches = <<>> THEN entries
    ELSE LET p == Head(patches)
             e == entries[p.sym]
             patched == IF p.kind = "name"
                        THEN [e EXCEPT !.name = Some(p.bytes)]
                        ELSE [e EXCEPT !.rec = p.rec]
         IN  ApplyPatches([entries EXCEPT ![p.sym] = patched], Tail(patches))

-----------------------------------------------------------------------------
(* Configuration: main.rs:119-138 *)

\* main.rs:120-127: values_of(..).map(RegexSet::new).transpose()
CompileRegex(values) ==
    IF IsSome(values)
    THEN LET r == RegexSetNew(Unwrap(values))
         IN  IF r.ok THEN Ok(Some(r.val)) ELSE r
    ELSE Ok(None)

\* a slip: the comparison is the wrong way round
ReplacementTooLong_reversed(old, new) == Len(old) > Len(new)

\* main.rs:133
ReplacementTooLong(old, new) == Len(new) > Len(old)

\* main.rs:130-137: the values of --rename taken two by two, from pair k on
RECURSIVE RenameLoop(_, _, _)
RenameLoop(values, k, map) ==
    IF 2 * k > Len(values) THEN Ok(map)
    ELSE LET old == values[2 * k - 1]
             new == values[2 * k]
         IN  IF ReplacementTooLong(old, new)
             THEN Err([kind |-> "Message", old |-> old, new |-> new])
             ELSE RenameLoop(values, k + 1, MapInsert(map, old, new))

\* main.rs:128-138
BuildRenameMap(values) ==
    IF IsSome(values) THEN RenameLoop(Unwrap(values), 1, EmptyMap) ELSE Ok(EmptyMap)

\* a slip: the rename pairs are validated before the patterns are compiled
ValidateConfig_renames_first(matches) ==
    LET h == CompileRegex(matches.hidden)
        d == CompileRegex(matches.default)
        r == BuildRenameMap(matches.rename)
    IN  IF ~r.ok THEN r
        ELSE IF ~h.ok THEN h
        ELSE IF ~d.ok THEN d
        ELSE Ok([verbose |-> matches.verbose, hidden_regex |-> h.val,
                 default_regex |-> d.val, rename_map |-> r.val])

\* main.rs:119-138: each step ends run with its error (?, return Err)
ValidateConfig(matches) ==
    LET h == CompileRegex(matches.hidden)
        d == CompileRegex(matches.default)
        r == BuildRenameMap(matches.rename)
    IN  IF ~h.ok THEN h
        ELSE IF ~d.ok THEN d
        ELSE IF ~r.ok THEN r
        ELSE Ok([verbose |-> matches.verbose, hidden_regex |-> h.val,
                 default_regex |-> d.val, rename_map |-> r.val])

-----------------------------------------------------------------------------
(* The inputs the model draws from *)

PatAll == <<".", "*">>
PatFoo == <<"^", "f", "o", "o", "$">>
PatUnclosed == <<"(", "f">>
Patterns == {PatAll, PatFoo, PatUnclosed}

\* --hidden and --default take one value each (main.rs:34-49)
PatternArgs == {None} \cup {Some(<<p>>) : p \in Patterns}

\* --rename OLD NEW, any number of times (main.rs:25-32): clap hands the
\* values over as one flat list.  The command lines tried: no --rename, one
\* pair, two pairs, a pair that is too long alone, after a good pair, and
\* before another that is too long
RenameArgs ==
    {None,
     Some(<<foo, bar>>),
     Some(<<UnnamedSymbol, foo, foo, bar>>),
     Some(<<name_a, name_ab>>),
     Some(<<foo, bar, name_a, name_ab>>),
     Some(<<name_a, name_ab, foo, UnnamedSymbol>>)}

SeqsUpTo(S, n) == UNION {[1..k -> S] : k \in 0..n}

Names == {None, Some(foo), Some(bar)}

\* a global function with STV_INTERNAL visibility; an STT_FILE symbol
\* (the source file's name) with a processor-specific bit and STV_HIDDEN
ElfRecs == {[st_info |-> 18, st_other |-> 1], [st_info |-> 4, st_other |-> 130]}
\* an external symbol defined in a section (N_SECT | N_EXT); an N_SO stab
MachRecs == {[n_type |-> 15, n_sect |-> 1], [n_type |-> 100, n_sect |-> 0]}

BadEntry == [ok |-> FALSE]
Entries(recs) == {[ok |-> TRUE, name |-> n, rec |-> r] : n \in Names, r \in recs}
                     \cup {BadEntry}

Object(format, symtab, entries) ==
    [format |-> format, symtab |-> symtab, entries |-> entries]

Files ==
    {Object("Elf", "present", es) : es \in SeqsUpTo(Entries(ElfRecs), MaxSyms)}
    \cup {Object("MachO", "present", es) : es \in SeqsUpTo(Entries(MachRecs), MaxSyms)}
    \cup {Object("Elf", "absent", <<>>), Object("Elf", "error", <<>>),
          Object("MachO", "absent", <<>>), Object("Unknown", "absent", <<>>)}

Faults(object) ==
    {NoFault} \cup {Fault(i, k) : i \in 1..Len(object.entries), k \in {"name", "record"}}

-----------------------------------------------------------------------------
(* The process *)

Init ==
    /\ args \in [verbose : BOOLEAN, hidden : PatternArgs, default : PatternArgs,
                 rename : RenameArgs]
    /\ invocation = "first"
    /\ pc = "configure"
    /\ hidden_regex = None
    /\ default_regex = None
    /\ rename_map = EmptyMap
    /\ input_opened = FALSE
    /\ output_created = FALSE
    /\ fed = None
    /\ input = None
    /\ calls = <<>>
    /\ returned = None
    /\ output = None
    /\ stdout = <<>>
    /\ stderr = <<>>
    /\ result = None

\* run returns Err(e); main.rs:64-67 prints it and exits
Fail(e) ==
    /\ result' = Some(Err(e))
    /\ stderr' = Append(stderr, e)
    /\ pc' = "exit"

\* main.rs:119-138
Configure ==
    /\ pc = "configure"
    /\ LET c == ValidateConfig(args)
       IN  IF c.ok
           THEN /\ hidden_regex' = c.val.hidden_regex
                /\ default_regex' = c.val.default_regex
                /\ rename_map' = c.val.rename_map
                /\ pc' = "open"
                /\ UNCHANGED <<result, stderr>>
           ELSE /\ Fail(c.err)
                /\ UNCHANGED <<hidden_regex, default_regex, rename_map>>
    /\ UNCHANGED <<args, invocation, input_opened, output_created, fed, input,
                   calls, returned, output, stdout>>

\* main.rs:220
OpenInput ==
    /\ pc = "open"
    /\ \/ /\ input_opened' = TRUE
          /\ pc' = "create"
          /\ UNCHANGED <<result, stderr>>
       \/ /\ Fail([kind |-> "Io", at |-> "INPUT"])
          /\ UNCHANGED input_opened
    /\ UNCHANGED <<args, invocation, hidden_regex, default_regex, rename_map,
                   output_created, fed, input, calls, returned, output, stdout>>

\* main.rs:221: create truncates
CreateOutput ==
    /\ pc = "create"
    /\ \/ /\ output_created' = TRUE
          /\ pc' = "transform"
          /\ UNCHANGED <<result, stderr>>
       \/ /\ Fail([kind |-> "Io", at |-> "OUTPUT"])
          /\ UNCHANGED output_created
    /\ UNCHANGED <<args, invocation, hidden_regex, default_regex, rename_map,
                   input_opened, fed, input, calls, returned, output, stdout>>

\* what the closure of main.rs:140-218 captured
Captured ==
    [verbose |-> args.verbose, hidden_regex |-> hidden_regex,
     default_regex |-> default_regex, rename_map |-> rename_map]

\* main.rs:222, with symtool_backend::object::transform_object: read and
\* decode INPUT, call the transform, apply its patches, write OUTPUT
TransformObject ==
    /\ pc = "transform"
    /\ \E f \in (IF IsSome(fed) THEN fed ELSE Files) :
          IF f.format = "Unknown"
          THEN /\ Fail([kind |-> "SymTool", at |-> Fault(0, "decode")])
               /\ UNCHANGED <<input, calls, returned, output, stdout>>
          ELSE \E fault \in Faults(f) :
                  \E t \in {Transform(f, Captured, fault)} :
                      /\ input' = Some(f)
                      /\ calls' = t.calls
                      /\ returned' = Some(t.res)
                      /\ stdout' = stdout \o t.out
                      /\ IF t.res.ok
                         THEN /\ output' = Some([f EXCEPT !.entries =
                                                 ApplyPatches(f.entries, t.res.val)])
                              /\ result' = Some(Ok(<<>>))
                              /\ pc' = "exit"
                              /\ UNCHANGED stderr
                         ELSE /\ Fail(t.res.err)
                              /\ UNCHANGED output
    /\ UNCHANGED <<args, invocation, hidden_regex, default_regex, rename_map,
                   input_opened, output_created, fed>>

\* the tool is run again with the same options on the file it has written
Rerun ==
    /\ pc = "exit"
    /\ invocation = "first"
    /\ IsSome(result) /\ Unwrap(result).ok
    /\ invocation' = "second"
    /\ pc' = "configure"
    /\ fed' = output
    /\ hidden_regex' = None
    /\ default_regex' = None
    /\ rename_map' = EmptyMap
    /\ input_opened' = FALSE
    /\ output_created' = FALSE
    /\ input' = None
    /\ calls' = <<>>
    /\ returned' = None
    /\ output' = None
    /\ stdout' = <<>>
    /\ stderr' = <<>>
    /\ result' = None
    /\ UNCHANGED args

Next ==
    \/ Configure
    \/ OpenInput
    \/ CreateOutput
    \/ TransformObject
    \/ Rerun

Spec == Init /\ [][Next]_vars

-----------------------------------------------------------------------------
(* The classification applied to every flag byte: the closure is run on a  *)
(* one-symbol table whose record takes every 8-bit flag value, once with a *)
(* force-hidden set and once with a force-default set that match its name. *)

ByteRecs(format) ==
    IF format = "Elf"
    THEN [st_info : {18}, st_other : 0..255]
    ELSE [n_type : 0..255, n_sect : {1}]

InitRecords ==
    /\ args = [verbose |-> FALSE, hidden |-> None, default |-> None, rename |-> None]
    /\ invocation = "first"
    /\ pc = "classify"
    /\ hidden_regex = None
    /\ default_regex = None
    /\ rename_map = EmptyMap
    /\ input_opened = TRUE
    /\ output_created = TRUE
    /\ fed = None
    /\ \E format \in {"Elf", "MachO"} : \E r \in ByteRecs(format) :
          input = Some(Object(format, "present",
                              <<[ok |-> TRUE, name |-> Some(foo), rec |-> r]>>))
    /\ calls = <<>>
    /\ returned = None
    /\ output = None
    /\ stdout = <<>>
    /\ stderr = <<>>
    /\ result = None

Classify(hidden, default, to) ==
    /\ hidden_regex' = hidden
    /\ default_regex' = default
    /\ LET t == Transform(Unwrap(input),
                          [verbose |-> args.verbose, hidden_regex |-> hidden,
                           default_regex |-> default, rename_map |-> rename_map],
                          NoFault)
       IN  /\ returned' = Some(t.res)
           /\ calls' = t.calls
           /\ stdout' = stdout \o t.out
    /\ pc' = to
    /\ UNCHANGED <<args, invocation, rename_map, input_opened, output_created,
                   fed, input, output, stderr, result>>

ForceHidden ==
    /\ pc = "classify"
    /\ Classify(Some(<<PatAll>>), None, "hidden")

ForceDefault ==
    /\ pc = "classify"
    /\ Classify(None, Some(<<PatAll>>), "default")

NextRecords ==
    \/ ForceHidden
    \/ ForceDefault

SpecRecords == InitRecords /\ [][NextRecords]_vars

-----------------------------------------------------------------------------
(* What the properties below read off a state *)

\* the transform closure has returned its patch list
TransformOk == IsSome(returned) /\ Unwrap(returned).ok
Patches == IF TransformOk THEN Unwrap(returned).val ELSE <<>>
Syms == Unwrap(input).entries
Format == Unwrap(input).format
PatchesOf(i, kind) ==
    {k \in 1..Len(Patches) : Patches[k].sym = i /\ Patches[k].kind = kind}

\* the visibility a record encodes: the low two bits of st_other (ELF), the
\* N_PEXT bit of n_type (Mach-O)
VisHidden(format, rec) ==
    IF format = "Elf" THEN rec.st_other % 4 = 2 ELSE (rec.n_type \div 16) % 2 = 1
VisDefault(format, rec) ==
    IF format = "Elf" THEN rec.st_other % 4 = 0 ELSE (rec.n_type \div 16) % 2 = 0

\* a Mach-O debugging (stab) entry: one of the three top bits of n_type is set
IsStab(rec) == rec.n_type \div 32 # 0
\* a debug-only record: a stab (Mach-O); an STT_SECTION or STT_FILE symbol,
\* which names a section or the source file and no linkable symbol (ELF)
DebugOnly(format, rec) ==
    IF format = "Elf" THEN rec.st_info % 16 \in {3, 4} ELSE IsStab(rec)

Named(i) == IsSome(Syms[i].name)
NameOf(i) == Unwrap(Syms[i].name)

RunFailed == pc = "exit" /\ IsSome(result) /\ ~Unwrap(result).ok
RunSucceeded == pc = "exit" /\ IsSome(result) /\ Unwrap(result).ok

\* the invalid items of the command line, each with the error it deserves
PatternItems(arg, values) ==
    IF IsSome(values)
    THEN {[arg |-> arg, err |-> [kind |-> "Regex", pattern |-> Unwrap(values)[k]]] :
             k \in {j \in 1..Len(Unwrap(values)) : ~SyntaxOk(Unwrap(values)[j])}}
    ELSE {}
RenameItems ==
    IF IsSome(args.rename)
    THEN LET v == Unwrap(args.rename)
         IN  {[arg |-> "rename", pair |-> k,
               err |-> [kind |-> "Message", old |-> v[2 * k - 1], new |-> v[2 * k]]] :
                 k \in {j \in 1..(Len(v) \div 2) : Len(v[2 * j]) > Len(v[2 * j - 1])}}
    ELSE {}
InvalidItems ==
    PatternItems("hidden", args.hidden) \cup PatternItems("default", args.default)
        \cup RenameItems
\* the first invalid item in the order run looks at them
FirstInvalid ==
    IF PatternItems("hidden", args.hidden) # {}
    THEN (CHOOSE x \in PatternItems("hidden", args.hidden) : TRUE).err
    ELSE IF PatternItems("default", args.default) # {}
    THEN (CHOOSE x \in PatternItems("default", args.default) : TRUE).err
    ELSE (CHOOSE x \in RenameItems : \A y \in RenameItems : x.pair <= y.pair).err

-----------------------------------------------------------------------------
(* Properties *)

\* C1: an invalid configuration (a --rename pair whose new name is longer
\* than the old one, or a malformed --hidden/--default pattern) makes run
\* return an error, and INPUT is never opened or read and OUTPUT never
\* created or written.
C1_InvalidConfigTouchesNoFile ==
    InvalidItems # {} =>
        /\ ~input_opened /\ ~output_created
        /\ input = None /\ output = None
        /\ pc # "configure" => RunFailed

C1_Witness ==
    /\ RunFailed
    /\ RenameItems # {}
    /\ ~input_opened /\ ~output_created

\* C2 as claimed: a named symbol matching both pattern sets always gets the
\* decision "default" (a record patch with default visibility), never hidden.
C2_AlwaysDefault ==
    TransformOk =>
        \A i \in 1..Len(Syms) :
            (Named(i) /\ Matches(default_regex, NameOf(i))
                      /\ Matches(hidden_regex, NameOf(i))) =>
                /\ PatchesOf(i, "record") # {}
                /\ \A k \in PatchesOf(i, "record") :
                       VisDefault(Format, Patches[k].rec) /\ ~VisHidden(Format, Patches[k].rec)

\* C2 amended: a named symbol matching both pattern sets never gets the
\* decision "hidden"; it gets the decision "default", unless it is a Mach-O
\* stab entry, which gets no visibility decision at all.
C2_DefaultBeforeHidden ==
    TransformOk =>
        \A i \in 1..Len(Syms) :
            (Named(i) /\ Matches(default_regex, NameOf(i))
                      /\ Matches(hidden_regex, NameOf(i))) =>
                /\ \A k \in PatchesOf(i, "record") :
                       VisDefault(Format, Patches[k].rec) /\ ~VisHidden(Format, Patches[k].rec)
                /\ PatchesOf(i, "record") = {} <=> (Format = "MachO" /\ IsStab(Syms[i].rec))

C2_Witness ==
    /\ TransformOk
    /\ \E i \in 1..Len(Syms) :
          /\ Named(i) /\ Matches(default_regex, NameOf(i)) /\ Matches(hidden_regex, NameOf(i))
          /\ \E k \in PatchesOf(i, "record") : VisDefault(Format, Patches[k].rec)
          /\ VisHidden(Format, Syms[i].rec)

C4_UnnamedUntouched ==
    /\ TransformOk =>
          \A i \in 1..Len(Syms) :
              ~Named(i) => \A k \in 1..Len(Patches) : Patches[k].sym # i
    /\ \A k \in 1..Len(stdout) : stdout[k].name # UnnamedSymbol

C4_Witness ==
    /\ TransformOk
    /\ UnnamedSymbol \in DOMAIN rename_map
    /\ Matches(hidden_regex, UnnamedSymbol)
    /\ args.verbose
    /\ \E i \in 1..Len(Syms) : ~Named(i) /\ ~DebugOnly(Format, Syms[i].rec)
    /\ Format = "MachO"

\* C5: with force-hidden patterns only (no rename, no force-default), the
\* tool run again on its own output writes that output unchanged.
C5_HiddenIdempotent ==
    (RunSucceeded /\ invocation = "second" /\ args.rename = None /\ args.default = None)
        => output = fed /\ input = fed

C5_Witness ==
    /\ RunSucceeded /\ invocation = "second"
    /\ args.rename = None /\ args.default = None /\ IsSome(args.hidden)
    /\ Format = "Elf"
    /\ \E i \in 1..Len(Syms) : PatchesOf(i, "record") # {}

\* C6: a named symbol that is no Mach-O stab, whose name is a key of the
\* rename mapping and matches the force-hidden set and not the force-default
\* set, gets a name patch with the mapped name and a record patch with
\* hidden visibility, also when the new name does not match the pattern.
C6_RenameAndHideIndependent ==
    TransformOk =>
        \A i \in 1..Len(Syms) :
            (/\ Named(i)
             /\ NameOf(i) \in DOMAIN rename_map
             /\ Matches(hidden_regex, NameOf(i))
             /\ ~Matches(default_regex, NameOf(i))
             /\ ~(Format = "MachO" /\ IsStab(Syms[i].rec)))
            => /\ \E k \in PatchesOf(i, "name") : Patches[k].bytes = rename_map[NameOf(i)]
               /\ \E k \in PatchesOf(i, "record") : VisHidden(Format, Patches[k].rec)

C6_Witness ==
    /\ TransformOk
    /\ Format = "Elf"
    /\ hidden_regex = Some(<<PatFoo>>)
    /\ \E i \in 1..Len(Syms) :
          /\ Named(i) /\ NameOf(i) = foo
          /\ foo \in DOMAIN rename_map /\ rename_map[foo] = bar
          /\ ~Matches(hidden_regex, bar)
          /\ ~VisHidden(Format, Syms[i].rec)
          /\ PatchesOf(i, "name") # {} /\ PatchesOf(i, "record") # {}

\* C7 as claimed: when run fails on the configuration, every invalid item of
\* the command line is reported.
C7_AllErrorsReported ==
    (RunFailed /\ InvalidItems # {}) =>
        \A item \in InvalidItems : \E k \in 1..Len(stderr) : stderr[k] = item.err

\* C7 amended: validation stops at the first invalid item, in the order
\* --hidden pattern, --default pattern, --rename pairs as given; run returns
\* that one error and it is the only one reported.
C7_FirstErrorOnly ==
    (pc # "configure" /\ InvalidItems # {}) =>
        /\ RunFailed
        /\ result = Some(Err(FirstInvalid))
        /\ stderr = <<FirstInvalid>>

C7_Witness ==
    /\ RunFailed
    /\ Cardinality(InvalidItems) >= 2
    /\ PatternItems("default", args.default) # {}
    /\ RenameItems # {}

\* C8: a modified record differs from its source record in the visibility
\* bits only: st_other keeps its upper six bits and its low two bits are the
\* target visibility (ELF); n_type keeps every bit but N_PEXT, which is set
\* for hidden and cleared for default (Mach-O); the other fields are equal.
\* Every record that is no stab is modified.
C8_OnlyVisibilityBitsChange ==
    pc \in {"hidden", "default"} =>
        /\ TransformOk
        /\ \A k \in 1..Len(Patches) :
              LET src == Syms[Patches[k].sym].rec
                  new == Patches[k].rec
              IN  /\ Patches[k].kind = "record"
                  /\ IF Format = "Elf"
                     THEN /\ new.st_info = src.st_info
                          /\ new.st_other \div 4 = src.st_other \div 4
                          /\ new.st_other % 4 = (IF pc = "hidden" THEN 2 ELSE 0)
                     ELSE /\ new.n_sect = src.n_sect
                          /\ new.n_type % 16 = src.n_type % 16
                          /\ new.n_type \div 32 = src.n_type \div 32
                          /\ (new.n_type \div 16) % 2 = (IF pc = "hidden" THEN 1 ELSE 0)
        /\ Len(Patches) = (IF Format = "MachO" /\ IsStab(Syms[1].rec) THEN 0 ELSE 1)

C8_Witness ==
    /\ pc = "default"
    /\ Format = "Elf"
    /\ Syms[1].rec.st_other = 255
    /\ Len(Patches) = 1
    /\ Patches[1].rec.st_other = 252

\* C9: in the returned patch list the patches are in symbol order, a symbol
\* has at most one name patch and at most one record patch, and its name
\* patch comes immediately before its record patch.
C9_PatchOrder ==
    \A p \in 1..Len(Patches) : \A q \in 1..Len(Patches) :
        p < q =>
            /\ Patches[p].sym <= Patches[q].sym
            /\ Patches[p].sym = Patches[q].sym =>
                   /\ q = p + 1
                   /\ Patches[p].kind = "name"
                   /\ Patches[q].kind = "record"

C9_Witness ==
    /\ Len(Patches) >= 3
    /\ Patches[1].sym = 1 /\ Patches[1].kind = "name"
    /\ Patches[2].sym = 1 /\ Patches[2].kind = "record"
    /\ Patches[3].sym = 2

\* C10: an error inside the transform is terminal.  When an entry of the
\* symbol sequence is an error, the closure returns an error before any
\* decision: no primitive is called and nothing is printed.  When a patch
\* primitive fails, it is the last one called and the closure returns its
\* error.  Whenever the closure returns an error, no patch list comes back,
\* nothing is written to OUTPUT and run returns that error.
C10_TransformErrorsTerminal ==
    /\ (IsSome(input) /\ \E k \in 1..Len(Syms) : ~Syms[k].ok) =>
          /\ IsSome(returned) /\ ~Unwrap(returned).ok
          /\ calls = <<>> /\ stdout = <<>>
    /\ \A k \in 1..Len(calls) :
          ~calls[k].ok =>
              /\ k = Len(calls)
              /\ returned = Some(Err(calls[k].err))
    /\ (IsSome(returned) /\ ~Unwrap(returned).ok) =>
          /\ output = None
          /\ RunFailed
          /\ result = Some(Err(Unwrap(returned).err))

C10_Witness ==
    /\ RunFailed
    /\ Len(calls) >= 2
    /\ calls[1].ok
    /\ ~calls[Len(calls)].ok
    /\ output = None

====
